---- MODULE Spec2Model ----
(***************************************************************************)
(* Model of the connection list view (src/src/components/                  *)
(* ConnectionList.svelte): the selection of at most two connections, the   *)
(* metadata comparison derived from it, and the view's controls.           *)
(***************************************************************************)
EXTENDS Integers, Sequences, FiniteSets, TLC

(***************************************************************************)
(* Bounds of the model.                                                    *)
(***************************************************************************)
NumIds == 2
MaxConnections == 3
MaxLoads == 2

(***************************************************************************)
(* JavaScript values.  Every value has the same four fields: t is the      *)
(* type tag, s the payload of a string, n the payload of a number and o    *)
(* the entries (key, value) of an object in insertion order.               *)
(***************************************************************************)
Undefined == [t |-> "undefined", s |-> "", n |-> 0, o |-> <<>>]
Null == [t |-> "null", s |-> "", n |-> 0, o |-> <<>>]
Str(x) == [t |-> "string", s |-> x, n |-> 0, o |-> <<>>]
Num(k) == [t |-> "number", s |-> "", n |-> k, o |-> <<>>]
Obj(entries) == [t |-> "object", s |-> "", n |-> 0, o |-> entries]
Entry(key, val) == [k |-> key, v |-> val]

\* The characters of the strings that occur as values in the model.
Chars(x) ==
  CASE x = "" -> <<>>
    [] x = "ab" -> <<"a", "b">>
    [] x = "pipe" -> <<"p", "i", "p", "e">>
    [] x = "N/A" -> <<"N", "/", "A">>
    [] x = "s:e" -> <<"s", ":", "e">>
    [] x = "loaded" -> <<"l", "o", "a", "d", "e", "d">>
    [] x = "select" -> <<"s", "e", "l", "e", "c", "t">>
    [] OTHER -> <<x>>

\* The index keys "0", "1", ... of a string of the given length.
IndexKeys(len) == [i \in 1..len |-> ToString(i - 1)]

\* Object.keys(val): own enumerable string keys, in insertion order.
ObjectKeys(val) ==
  CASE val.t = "object" -> [i \in 1..Len(val.o) |-> val.o[i].k]
    [] val.t = "string" -> IndexKeys(Len(Chars(val.s)))
    [] OTHER -> <<>>

\* val[key] on a value that is neither null nor undefined.
Get(val, key) ==
  CASE val.t = "object" ->
         IF \E i \in 1..Len(val.o) : val.o[i].k = key
         THEN val.o[CHOOSE i \in 1..Len(val.o) : val.o[i].k = key].v
         ELSE Undefined
    [] val.t = "string" ->
         IF \E i \in 1..Len(Chars(val.s)) : ToString(i - 1) = key
         THEN Str(Chars(val.s)[CHOOSE i \in 1..Len(Chars(val.s)) : ToString(i - 1) = key])
         ELSE Undefined
    [] OTHER -> Undefined

\* val?.[key]
OptGet(val, key) ==
  IF val.t \in {"undefined", "null"} THEN Undefined ELSE Get(val, key)

\* Truthiness, as used by the || operator.
Truthy(val) ==
  CASE val.t \in {"undefined", "null"} -> FALSE
    [] val.t = "string" -> val.s # ""
    [] val.t = "number" -> val.n # 0
    [] OTHER -> TRUE

\* a || b
OrElse(a, b) == IF Truthy(a) THEN a ELSE b

\* String(val)
String(val) ==
  CASE val.t = "string" -> val.s
    [] val.t = "number" -> ToString(val.n)
    [] val.t = "null" -> "null"
    [] val.t = "undefined" -> "undefined"
    [] OTHER -> "[object Object]"

(***************************************************************************)
(* Collation.  The keys of the model in the order localeCompare puts them  *)
(* in (digits before letters, letters alphabetically).                     *)
(***************************************************************************)
CollationOrder ==
  <<"0", "1", "createdAt", "id", "label", "name", "params", "type", "updatedAt", "Zone">>

CollationRank(key) == CHOOSE i \in 1..Len(CollationOrder) : CollationOrder[i] = key

\* The keys of the model in the order of their UTF-16 code units, which is
\* the order of a < b and of sort() without a comparator.
CodeUnitOrder ==
  <<"0", "1", "Zone", "createdAt", "id", "label", "name", "params", "type", "updatedAt">>

CodeUnitRank(key) == CHOOSE i \in 1..Len(CodeUnitOrder) : CodeUnitOrder[i] = key

\* Comparing by code units instead of by collation.
localeCompare_codeUnit(a, b) == CodeUnitRank(a) - CodeUnitRank(b)

\* a.localeCompare(b): negative, zero or positive.
localeCompare(a, b) == CollationRank(a) - CollationRank(b)

(***************************************************************************)
(* The records of the model: each id in each of the shapes below.          *)
(***************************************************************************)
\* The ids of the records a caller can pass to the component's functions.
Ids == {ToString(i) : i \in 1..NumIds}

\* The ids of the rows of a list.
ViewIds == {ToString(i) : i \in 1..MaxConnections}

PlainRecord(id) ==
  Obj(<<Entry("id", Str(id)),
        Entry("params", Obj(<<Entry("type", Str("pipe"))>>))>>)

LabelledRecord(id) ==
  Obj(<<Entry("id", Str(id)),
        Entry("params", Obj(<<Entry("type", Str("pipe")), Entry("label", Str("X"))>>))>>)

DatedRecord(id) ==
  Obj(<<Entry("id", Str(id)),
        Entry("createdAt", Num(5)),
        Entry("name", Str("n")),
        Entry("params", Obj(<<Entry("label", Str("N/A")), Entry("id", Str("9")),
                              Entry("type", Num(1)), Entry("Zone", Str("N"))>>))>>)

BareRecord(id) == Obj(<<Entry("id", Str(id))>>)

NullParamsRecord(id) ==
  Obj(<<Entry("params", Null), Entry("id", Str(id)), Entry("updatedAt", Num(5))>>)

StringParamsRecord(id) ==
  Obj(<<Entry("id", Str(id)), Entry("params", Str("ab"))>>)

\* The params of PlainRecord, with a creation date.
StampedRecord(id) ==
  Obj(<<Entry("id", Str(id)),
        Entry("createdAt", Num(6)),
        Entry("params", Obj(<<Entry("type", Str("pipe"))>>))>>)

\* The params of PlainRecord, with a top-level name.
NamedRecord(id) ==
  Obj(<<Entry("id", Str(id)),
        Entry("name", Str("m")),
        Entry("params", Obj(<<Entry("type", Str("pipe"))>>))>>)

RecordsOf(id) ==
  {PlainRecord(id), LabelledRecord(id), DatedRecord(id), BareRecord(id),
   NullParamsRecord(id), StringParamsRecord(id), StampedRecord(id), NamedRecord(id)}

Records == UNION {RecordsOf(id) : id \in Ids}

\* The collections the list can be given: records with unique ids.
ViewRecords == UNION {RecordsOf(id) : id \in ViewIds}

RECURSIVE CollectionsOver(_)
CollectionsOver(ids) ==
  IF ids = {}
  THEN {{}}
  ELSE LET id == CHOOSE i \in ids : TRUE
           rest == CollectionsOver(ids \ {id})
       IN  rest \cup {collection \cup {record} : collection \in rest, record \in RecordsOf(id)}

Collections == CollectionsOver(ViewIds)

\* The ids a caller can pass to removeFromCompare.
IdArgs == {Str(id) : id \in Ids} \cup {Str("0")}

(***************************************************************************)
(* The component's functions, as functions of the selection.               *)
(***************************************************************************)
\* Keeping both selected records when a third one is added.
addToCompare_noEvict(selected, connection) == Append(selected, connection)

\* Evicting the newest of the two selected records instead of the oldest.
addToCompare_evictNewest(selected, connection) ==
  IF Len(selected) >= 2
  THEN <<selected[1], connection>>
  ELSE Append(selected, connection)

\* Putting the added record first.
addToCompare_prepend(selected, connection) ==
  IF Len(selected) >= 2
  THEN <<selected[2], connection>>
  ELSE <<connection>> \o selected

addToCompare(selected, connection) ==
  IF Len(selected) >= 2
  THEN <<selected[2], connection>>
  ELSE Append(selected, connection)

\* Removing only the first record that has the id.
removeFromCompare_firstOnly(selected, connectionId) ==
  IF \E i \in 1..Len(selected) : Get(selected[i], "id") = connectionId
  THEN LET first == CHOOSE i \in 1..Len(selected) :
                      /\ Get(selected[i], "id") = connectionId
                      /\ \A j \in 1..(i - 1) : Get(selected[j], "id") # connectionId
       IN SubSeq(selected, 1, first - 1) \o SubSeq(selected, first + 1, Len(selected))
  ELSE selected

removeFromCompare(selected, connectionId) ==
  SelectSeq(selected, LAMBDA conn : Get(conn, "id") # connectionId)

\* A clear that leaves the newest record selected.
clearSelection_keepLast(selected) ==
  IF Len(selected) = 0 THEN <<>> ELSE <<selected[Len(selected)]>>

clearSelection(selected) == <<>>

\* A membership test that finds nothing.
isSelected_never(selected, connectionId) == FALSE

isSelected(selected, connectionId) ==
  \E i \in 1..Len(selected) : Get(selected[i], "id") = connectionId

\* The comparison shown as soon as anything is selected.
showComparisonOf_any(selected) == Len(selected) >= 1

showComparisonOf(selected) == Len(selected) = 2

\* The elements of a sequence, each once, in order of first occurrence
\* (the iteration order of new Set(seq)).
SetOf_keepAll(seq) == seq

RECURSIVE SetOf(_)
SetOf(seq) ==
  IF seq = <<>> THEN <<>>
  ELSE LET rest == SetOf(SubSeq(seq, 1, Len(seq) - 1))
           last == seq[Len(seq)]
       IN IF \E i \in 1..Len(rest) : rest[i] = last THEN rest ELSE Append(rest, last)

\* Array.prototype.filter(key => key !== 'params')
NotParams(keys) == SelectSeq(keys, LAMBDA key : key # "params")

\* The keys compared: lines 68-73.
allKeysOf(conn1, conn2) ==
  SetOf(ObjectKeys(OrElse(Get(conn1, "params"), Obj(<<>>)))
        \o ObjectKeys(OrElse(Get(conn2, "params"), Obj(<<>>)))
        \o NotParams(ObjectKeys(conn1))
        \o NotParams(ObjectKeys(conn2)))

\* Reading every key from params first, and from the record itself only
\* when params does not have it.
valueOf_paramsFirst(conn, key) ==
  IF OptGet(Get(conn, "params"), key) # Undefined
  THEN OptGet(Get(conn, "params"), key)
  ELSE Get(conn, key)

\* Reading every field the record has from the record, not only the three.
valueOf_anyTopLevel(conn, key) ==
  IF key # "params" /\ Get(conn, key) # Undefined
  THEN Get(conn, key)
  ELSE OptGet(Get(conn, "params"), key)

\* The value of a key in a record: lines 79-85.
valueOf(conn, key) ==
  IF key = "id" \/ key = "createdAt" \/ key = "updatedAt"
  THEN Get(conn, key)
  ELSE OptGet(Get(conn, "params"), key)

\* Coercing without the substitute for a missing value.
strOf_noSentinel(value) == String(value)

\* The display string of a value: lines 88-89.
strOf(value) == IF value # Undefined THEN String(value) ELSE "N/A"

\* Classifying in the opposite direction.
statusOf_swapped(value1, value2) ==
  IF value1 = Undefined /\ value2 # Undefined THEN "removed"
  ELSE IF value1 # Undefined /\ value2 = Undefined THEN "added"
  ELSE IF strOf(value1) # strOf(value2) THEN "changed"
  ELSE "same"

\* The status of a row: lines 91-100.
statusOf(value1, value2) ==
  IF value1 = Undefined /\ value2 # Undefined THEN "added"
  ELSE IF value1 # Undefined /\ value2 = Undefined THEN "removed"
  ELSE IF strOf(value1) # strOf(value2) THEN "changed"
  ELSE "same"

\* The row pushed for a key: lines 102-107.
rowOf(conn1, conn2, key) ==
  [property |-> key,
   value1 |-> strOf(valueOf(conn1, key)),
   value2 |-> strOf(valueOf(conn2, key)),
   status |-> statusOf(valueOf(conn1, key), valueOf(conn2, key))]

\* Array.prototype.sort with the comparator of line 110: a stable sort.
\* Sorting with the comparator's arguments exchanged: descending.
RECURSIVE Insert_descending(_, _)
Insert_descending(sorted, row) ==
  IF sorted = <<>> THEN <<row>>
  ELSE IF localeCompare(row.property, sorted[Len(sorted)].property) <= 0
       THEN Append(sorted, row)
       ELSE Append(Insert_descending(SubSeq(sorted, 1, Len(sorted) - 1), row),
                   sorted[Len(sorted)])

RECURSIVE Insert(_, _)
Insert(sorted, row) ==
  IF sorted = <<>> THEN <<row>>
  ELSE IF localeCompare(sorted[Len(sorted)].property, row.property) <= 0
       THEN Append(sorted, row)
       ELSE Append(Insert(SubSeq(sorted, 1, Len(sorted) - 1), row), sorted[Len(sorted)])

\* Returning the rows in the order the keys were met.
Sort_none(rows) == rows

RECURSIVE Sort(_)
Sort(rows) ==
  IF rows = <<>> THEN <<>>
  ELSE Insert(Sort(SubSeq(rows, 1, Len(rows) - 1)), rows[Len(rows)])

\* A comparison that is computed for a single selected record too.
compareMetadata_noGuard(selected) ==
  IF Len(selected) = 0 THEN <<>>
  ELSE LET conn1 == selected[1]
           conn2 == selected[Len(selected)]
           allKeys == allKeysOf(conn1, conn2)
       IN Sort([i \in 1..Len(allKeys) |-> rowOf(conn1, conn2, allKeys[i])])

compareMetadata(selected) ==
  IF Len(selected) # 2 THEN <<>>
  ELSE LET conn1 == selected[1]
           conn2 == selected[2]
           allKeys == allKeysOf(conn1, conn2)
       IN Sort([i \in 1..Len(allKeys) |-> rowOf(conn1, conn2, allKeys[i])])

(***************************************************************************)
(* State.                                                                  *)
(***************************************************************************)
\* connections: the collection the list was given (a set of records).
\* selectedConnections: the selection, oldest first.
\* showComparison: $derived(selectedConnections.length === 2).
\* comparisonData: $derived(compareMetadata()).
\* lastCall: the handler that ran last, and its argument.
\* previousSelection: selectedConnections when that handler was entered.
VARIABLES connections, selectedConnections, showComparison, comparisonData, lastCall, previousSelection

\* token: the application's token; the list is shown when it is truthy.
\* loadedEvent: window.loadedEvent.
\* effectPending: the $effect of the application is scheduled to run.
\* service: the fields jwt, projectId and subProjectId of IntegrationService.
\* pending: the triggerLoad calls that wait for their request, each with
\*   its number, its jwtToken argument and the address it requested.
\* started: the number of requests that were started.
\* fetchFailed: a request was rejected.
\* setProjectThrew: a triggerLoad call ended in setProject.
\* received: integration data with a non-empty token was handed to triggerLoad.
\* results: the requests that were answered, each with its data and the
\*   jwtToken of its triggerLoad call.
VARIABLES token, loadedEvent, effectPending, service, pending, started, fetchFailed, setProjectThrew, received, results

appVars == <<token, loadedEvent, effectPending, service, pending, started,
             fetchFailed, setProjectThrew, received, results>>

listVars == <<selectedConnections, showComparison, comparisonData, lastCall,
              previousSelection>>

\* The application before anything has happened (App.svelte lines 10-13).
AppStarted ==
  /\ token = Str("")
  /\ effectPending = TRUE
  /\ service = [jwt |-> Undefined, projectId |-> Undefined, subProjectId |-> Undefined]
  /\ pending = {}
  /\ started = 0
  /\ fetchFailed = FALSE
  /\ setProjectThrew = FALSE
  /\ received = FALSE
  /\ results = {}

\* The list on its own, outside the application.
NoApp == AppStarted /\ loadedEvent = Undefined

vars == <<connections, selectedConnections, showComparison, comparisonData,
          lastCall, previousSelection, token, loadedEvent, effectPending, service,
          pending, started, fetchFailed, setProjectThrew, received, results>>

Call(name, argument) == [op |-> name, arg |-> argument]

\* The state of a freshly mounted list.
Mounted ==
  /\ selectedConnections = <<>>
  /\ showComparison = showComparisonOf(<<>>)
  /\ comparisonData = compareMetadata(<<>>)
  /\ lastCall = Call("mount", Undefined)
  /\ previousSelection = <<>>

\* The list used as a component: the default prop value, any call.
Init == connections = {} /\ Mounted /\ NoApp

\* The list as the user sees it: mounted over some collection.
InitView == connections \in Collections /\ Mounted /\ NoApp

\* An assignment after which the rows are not computed again.
Select_stale(selected, call) ==
  /\ selectedConnections' = selected
  /\ showComparison' = showComparisonOf(selected)
  /\ comparisonData' = comparisonData
  /\ lastCall' = call
  /\ previousSelection' = selectedConnections
  /\ UNCHANGED connections
  /\ UNCHANGED appVars

\* An assignment to selectedConnections, and the derived values after it.
Select(selected, call) ==
  /\ selectedConnections' = selected
  /\ showComparison' = showComparisonOf(selected)
  /\ comparisonData' = compareMetadata(selected)
  /\ lastCall' = call
  /\ previousSelection' = selectedConnections
  /\ UNCHANGED connections
  /\ UNCHANGED appVars

AddToCompare(connection) ==
  Select(addToCompare(selectedConnections, connection), Call("addToCompare", connection))

RemoveFromCompare(connectionId) ==
  Select(removeFromCompare(selectedConnections, connectionId),
         Call("removeFromCompare", connectionId))

ClearSelection ==
  Select(clearSelection(selectedConnections), Call("clearSelection", Undefined))

Next ==
  \/ \E connection \in Records : AddToCompare(connection)
  \/ \E connectionId \in IdArgs : RemoveFromCompare(connectionId)
  \/ ClearSelection

Spec == Init /\ [][Next]_vars

(***************************************************************************)
(* The view: which controls the markup offers.                             *)
(***************************************************************************)
\* Lines 119-126: the badge and the Clear Selection button.
ClearSelectionShown == Len(selectedConnections) > 0

\* Line 129: the empty-state alert replaces the table.
NoConnections == Cardinality(connections) = 0

\* A list that offers Add on every row.
RowOffersAdd_always(connection) == connection \in connections

\* Lines 145-166: a row offers Remove when selected, Add otherwise.
RowOffersRemove(connection) ==
  /\ ~NoConnections
  /\ connection \in connections
  /\ isSelected(selectedConnections, Get(connection, "id"))

RowOffersAdd(connection) ==
  /\ ~NoConnections
  /\ connection \in connections
  /\ ~isSelected(selectedConnections, Get(connection, "id"))

\* Line 162: disabled={selectedConnections.length >= 2}
AddDisabled == Len(selectedConnections) >= 2

\* Lines 174-178 and 180.
PromptShown == ~NoConnections /\ Len(selectedConnections) = 1
ComparisonTableShown == ~NoConnections /\ showComparison

\* Lines 254-258.
NoMetadataNoticeShown == ComparisonTableShown /\ Len(comparisonData) = 0

\* The Add button of a row can be pressed.
AddEnabled(connection) == RowOffersAdd(connection) /\ ~AddDisabled

ClickAdd(connection) ==
  /\ AddEnabled(connection)
  /\ AddToCompare(connection)

ClickRemove(connection) ==
  /\ RowOffersRemove(connection)
  /\ RemoveFromCompare(Get(connection, "id"))

ClickClear ==
  /\ ClearSelectionShown
  /\ ClearSelection

NextView ==
  \/ \E connection \in ViewRecords : ClickAdd(connection)
  \/ \E connection \in ViewRecords : ClickRemove(connection)
  \/ ClickClear

SpecView == InitView /\ [][NextView]_vars

(***************************************************************************)
(* Properties of the selection.                                            *)
(***************************************************************************)
Added == lastCall.op = "addToCompare"
Removed == lastCall.op = "removeFromCompare"
Cleared == lastCall.op = "clearSelection"

\* C1: whatever addToCompare, removeFromCompare and clearSelection calls were
\* made, with whatever records, the selection holds at most 2 records.
C1_AtMostTwo == Len(selectedConnections) <= 2

\* addToCompare was called on a full selection.
C1_Witness == Added /\ Len(previousSelection) = 2 /\ Len(selectedConnections) = 2

\* C2: addToCompare(X) on a selection <<P, Q>> leaves exactly <<Q, X>>.
C2_EvictsOldest ==
  (Added /\ Len(previousSelection) = 2)
    => selectedConnections = <<previousSelection[2], lastCall.arg>>

\* A third, different record was added to two different records.
C2_Witness ==
  /\ Added
  /\ Len(previousSelection) = 2
  /\ previousSelection[1] # previousSelection[2]
  /\ lastCall.arg # previousSelection[1]
  /\ lastCall.arg # previousSelection[2]
  /\ selectedConnections[1] = previousSelection[2]

\* C3: with two connections selected, every unselected row of the view can
\* still be added (which would evict the first-selected connection).
C3_ThirdCanBeAdded ==
  Len(selectedConnections) = 2
    => \A connection \in connections :
         ~isSelected(selectedConnections, Get(connection, "id"))
           => AddEnabled(connection)

\* C4: through the view's controls, over a collection with unique ids, no
\* two selected records have the same id.
C4_NoDuplicateIds ==
  \A i, j \in 1..Len(selectedConnections) :
    i # j => Get(selectedConnections[i], "id") # Get(selectedConnections[j], "id")

\* The user added a second connection to the first.
C4_Witness ==
  /\ Added
  /\ Len(previousSelection) = 1
  /\ Len(selectedConnections) = 2
  /\ lastCall.arg \in connections

\* The positions of the previous selection whose record does not have the
\* id that was passed to removeFromCompare.
KeptPositions ==
  {i \in 1..Len(previousSelection) : Get(previousSelection[i], "id") # lastCall.arg}

\* The positions whose record has that id.
RemovedPositions ==
  {i \in 1..Len(previousSelection) : Get(previousSelection[i], "id") = lastCall.arg}

\* The n-th kept position, counting from the front.
KeptPosition(n) ==
  CHOOSE i \in KeptPositions : Cardinality({j \in KeptPositions : j <= i}) = n

\* The selection is the previous one without the records at the removed
\* positions, in the same order.
RemainingInOrder ==
  /\ Len(selectedConnections) = Cardinality(KeptPositions)
  /\ \A n \in 1..Len(selectedConnections) :
       selectedConnections[n] = previousSelection[KeptPosition(n)]

\* C5 as stated: removeFromCompare(i) on a selection that contains id i
\* shortens it by exactly 1 and keeps the order of the rest; otherwise the
\* selection is unchanged.
C5_RemoveDropsExactlyOne ==
  Removed =>
    IF isSelected(previousSelection, lastCall.arg)
    THEN Len(selectedConnections) = Len(previousSelection) - 1 /\ RemainingInOrder
    ELSE selectedConnections = previousSelection

\* C5, amended: removeFromCompare(i) removes every selected record with id i
\* (at least one when the id is selected, both when the same id was added
\* twice) and keeps the order of the rest; when no selected record has id i
\* the selection is unchanged.
C5_RemoveDropsEveryMatch ==
  Removed =>
    /\ RemainingInOrder
    /\ Len(selectedConnections) = Len(previousSelection) - Cardinality(RemovedPositions)
    /\ isSelected(previousSelection, lastCall.arg)
         => Len(selectedConnections) < Len(previousSelection)
    /\ ~isSelected(previousSelection, lastCall.arg)
         => selectedConnections = previousSelection

\* An id that was selected twice was removed.
C5_Witness ==
  /\ Removed
  /\ Len(previousSelection) = 2
  /\ Get(previousSelection[1], "id") = lastCall.arg
  /\ Get(previousSelection[2], "id") = lastCall.arg
  /\ selectedConnections = <<>>

\* C6: over a non-empty collection, the comparison table is shown exactly
\* when 2 records are selected and the prompt exactly when 1 is; with none
\* selected neither is shown.
C6_TableIffTwo ==
  ~NoConnections =>
    /\ ComparisonTableShown <=> Len(selectedConnections) = 2
    /\ PromptShown <=> Len(selectedConnections) = 1
    /\ Len(selectedConnections) = 0 => ~ComparisonTableShown /\ ~PromptShown

\* The table is on screen for two selected connections.
C6_Witness ==
  /\ Added
  /\ Len(selectedConnections) = 2
  /\ ComparisonTableShown
  /\ ~PromptShown

\* C7: addToCompare(X) on a selection of 0 or 1 records appends X and
\* changes nothing else; removeFromCompare and clearSelection never make
\* the selection longer.
C7_AppendsBelowTwo ==
  /\ (Added /\ Len(previousSelection) < 2)
       => selectedConnections = Append(previousSelection, lastCall.arg)
  /\ (Removed \/ Cleared) => Len(selectedConnections) <= Len(previousSelection)

\* A different record was added to a selection of one.
C7_Witness ==
  /\ Added
  /\ Len(previousSelection) = 1
  /\ previousSelection[1] # lastCall.arg
  /\ Len(selectedConnections) = 2

\* C8: the Clear Selection control is there whenever something is selected,
\* and after clearSelection nothing is selected, the comparison table is
\* hidden and comparisonData is empty.
C8_ClearEmpties ==
  /\ Len(selectedConnections) >= 1 => ClearSelectionShown
  /\ Cleared =>
       /\ selectedConnections = <<>>
       /\ ~showComparison
       /\ ~ComparisonTableShown
       /\ comparisonData = <<>>

\* The user cleared a selection of two, whose comparison was on screen.
C8_Witness ==
  /\ Cleared
  /\ Len(previousSelection) = 2
  /\ compareMetadata(previousSelection) # <<>>
  /\ selectedConnections = <<>>

\* C9: with fewer than 2 records selected compareMetadata returns the empty
\* sequence.
C9_EmptyBelowTwo ==
  Len(selectedConnections) < 2 =>
    /\ comparisonData = <<>>
    /\ compareMetadata(selectedConnections) = <<>>

\* One record is left of a selection of two.
C9_Witness ==
  /\ Len(selectedConnections) = 1
  /\ Len(previousSelection) = 2
  /\ comparisonData = <<>>

(***************************************************************************)
(* Properties of the comparison.                                           *)
(***************************************************************************)
\* The keys that occur anywhere in the records of the model.
ModelKeys == {CollationOrder[i] : i \in 1..Len(CollationOrder)}

\* The keys of conn.params: those under which params holds a value.
ParamsKeys(conn) ==
  {key \in ModelKeys : OptGet(Get(conn, "params"), key) # Undefined}

\* The top-level keys of conn other than 'params'.
TopLevelKeys(conn) ==
  {key \in ModelKeys \ {"params"} : Get(conn, key) # Undefined}

KeyUniverse(conn1, conn2) ==
  ParamsKeys(conn1) \cup ParamsKeys(conn2)
    \cup TopLevelKeys(conn1) \cup TopLevelKeys(conn2)

\* C10: for two selected records the properties of the rows are the union of
\* the keys of both params and of both records' top-level keys other than
\* 'params', and there is exactly one row per key.
C10_OneRowPerKey ==
  Len(selectedConnections) = 2 =>
    LET universe == KeyUniverse(selectedConnections[1], selectedConnections[2])
    IN /\ {comparisonData[i].property : i \in 1..Len(comparisonData)} = universe
       /\ Len(comparisonData) = Cardinality(universe)
       /\ \A i, j \in 1..Len(comparisonData) :
            i # j => comparisonData[i].property # comparisonData[j].property

\* Two records that share keys, in params and at the top level, and have
\* keys of their own.
C10_Witness ==
  /\ Len(selectedConnections) = 2
  /\ ParamsKeys(selectedConnections[1]) \cap ParamsKeys(selectedConnections[2]) # {}
  /\ ParamsKeys(selectedConnections[1]) # ParamsKeys(selectedConnections[2])
  /\ TopLevelKeys(selectedConnections[1]) # TopLevelKeys(selectedConnections[2])
  /\ Len(comparisonData) >= 5

\* The two selected records, and the rows shown for them.
Compared == Len(selectedConnections) = 2
RecordA == selectedConnections[1]
RecordB == selectedConnections[2]
Rows == 1..Len(comparisonData)

\* The keys that are always read from the record itself.
TopLevelOnly == {"id", "createdAt", "updatedAt"}

\* The value a row is about, in a record: the record's own field for the
\* three top-level keys, the field of its params for every other key.
Extracted(conn, key) ==
  IF key \in TopLevelOnly
  THEN Get(conn, key)
  ELSE OptGet(Get(conn, "params"), key)

Absent(value) == value = Undefined

\* What the table shows for a value.
Display(value) == IF Absent(value) THEN "N/A" ELSE String(value)

\* C11: in every row, the values of id, createdAt and updatedAt come from the
\* records' top-level fields even when params has the key too, and the
\* values of every other key come from params even when the record has a
\* top-level field of that name.
C11_ValueSource ==
  Compared =>
    \A i \in Rows :
      LET key == comparisonData[i].property
      IN IF key \in TopLevelOnly
         THEN /\ comparisonData[i].value1 = Display(Get(RecordA, key))
              /\ comparisonData[i].value2 = Display(Get(RecordB, key))
         ELSE /\ comparisonData[i].value1 = Display(OptGet(Get(RecordA, "params"), key))
              /\ comparisonData[i].value2 = Display(OptGet(Get(RecordB, "params"), key))

\* The first record has an id in params that differs from its own, and a
\* top-level name that params does not have.
C11_Witness ==
  /\ Compared
  /\ ~Absent(OptGet(Get(RecordA, "params"), "id"))
  /\ OptGet(Get(RecordA, "params"), "id") # Get(RecordA, "id")
  /\ ~Absent(Get(RecordA, "name"))
  /\ Absent(OptGet(Get(RecordA, "params"), "name"))
  /\ \E i \in Rows :
       comparisonData[i].property = "id"
         /\ comparisonData[i].value1 = String(Get(RecordA, "id"))
  /\ \E i \in Rows :
       comparisonData[i].property = "name" /\ comparisonData[i].value1 = "N/A"

\* C12: a row is 'added' exactly when its value is absent in the first
\* record and present in the second, 'removed' exactly when it is present
\* in the first and absent in the second; an absent value is shown as
\* "N/A" and a present one as its string form.
C12_AddedRemoved ==
  Compared =>
    \A i \in Rows :
      LET row == comparisonData[i]
          value1 == Extracted(RecordA, row.property)
          value2 == Extracted(RecordB, row.property)
      IN /\ row.status = "added" <=> (Absent(value1) /\ ~Absent(value2))
         /\ row.status = "removed" <=> (~Absent(value1) /\ Absent(value2))
         /\ row.value1 = (IF Absent(value1) THEN "N/A" ELSE String(value1))
         /\ row.value2 = (IF Absent(value2) THEN "N/A" ELSE String(value2))

\* One comparison with an added and a removed row.
C12_Witness ==
  /\ Compared
  /\ \E i \in Rows : comparisonData[i].status = "added" /\ comparisonData[i].value1 = "N/A"
  /\ \E i \in Rows : comparisonData[i].status = "removed" /\ comparisonData[i].value2 = "N/A"

\* C13: a row is 'same' only when both values are present with equal string
\* forms, and 'changed' only when both are present with different string
\* forms; a key whose value is absent in both records is not 'same'.
C13_SameNeedsPresence ==
  Compared =>
    \A i \in Rows :
      LET row == comparisonData[i]
          value1 == Extracted(RecordA, row.property)
          value2 == Extracted(RecordB, row.property)
      IN /\ row.status = "same"
              => ~Absent(value1) /\ ~Absent(value2) /\ String(value1) = String(value2)
         /\ row.status = "changed"
              => ~Absent(value1) /\ ~Absent(value2) /\ String(value1) # String(value2)

\* An object without the entry of a key.
WithoutKey(object, key) ==
  IF object.t = "object"
  THEN Obj(SelectSeq(object.o, LAMBDA entry : entry.k # key))
  ELSE object

\* A record in which the value that is read for a key is missing.
WithoutExtracted(conn, key) ==
  IF key \in TopLevelOnly
  THEN WithoutKey(conn, key)
  ELSE Obj([i \in 1..Len(conn.o) |->
              IF conn.o[i].k = "params"
              THEN Entry("params", WithoutKey(conn.o[i].v, key))
              ELSE conn.o[i]])

NoRow == [property |-> "", value1 |-> "", value2 |-> "", status |-> ""]

HasRow(rows, key) == \E i \in 1..Len(rows) : rows[i].property = key

\* The row of a key in a comparison.
RowFor(rows, key) ==
  IF HasRow(rows, key)
  THEN rows[CHOOSE i \in 1..Len(rows) : rows[i].property = key]
  ELSE NoRow

\* The keys under which a record holds the raw string "N/A".
RawNAKeys(conn) == {key \in ModelKeys : Extracted(conn, key) = Str("N/A")}

\* C14 as stated: replacing a raw "N/A" by a missing value, in either
\* record, leaves the row of that key exactly as it was.
C14_RawNAIsAbsent ==
  Compared =>
    /\ \A key \in RawNAKeys(RecordA) :
         RowFor(compareMetadata(<<WithoutExtracted(RecordA, key), RecordB>>), key)
           = RowFor(comparisonData, key)
    /\ \A key \in RawNAKeys(RecordB) :
         RowFor(compareMetadata(<<RecordA, WithoutExtracted(RecordB, key)>>), key)
           = RowFor(comparisonData, key)

\* Two rows show the same two values.
SameValues(row1, row2) == row1.value1 = row2.value1 /\ row1.value2 = row2.value2

\* C14, amended: replacing a raw "N/A" by a missing value, in either record,
\* leaves value1 and value2 of that key's row as they were whenever the key
\* still has a row; the status can differ, because it is decided on the raw
\* values.
C14_RawNAShownAsAbsent ==
  Compared =>
    /\ \A key \in RawNAKeys(RecordA) :
         LET other == compareMetadata(<<WithoutExtracted(RecordA, key), RecordB>>)
         IN /\ HasRow(comparisonData, key)
            /\ HasRow(other, key)
                 => SameValues(RowFor(other, key), RowFor(comparisonData, key))
    /\ \A key \in RawNAKeys(RecordB) :
         LET other == compareMetadata(<<RecordA, WithoutExtracted(RecordB, key)>>)
         IN /\ HasRow(comparisonData, key)
            /\ HasRow(other, key)
                 => SameValues(RowFor(other, key), RowFor(comparisonData, key))

\* The first record holds a raw "N/A" under a key the second record has a
\* value for: the row shows the same values with and without it, but is
\* 'changed' with it and 'added' without it.
C14_Witness ==
  /\ Compared
  /\ \E key \in RawNAKeys(RecordA) :
       LET other == compareMetadata(<<WithoutExtracted(RecordA, key), RecordB>>)
       IN /\ HasRow(other, key)
          /\ SameValues(RowFor(other, key), RowFor(comparisonData, key))
          /\ RowFor(comparisonData, key).status = "changed"
          /\ RowFor(other, key).status = "added"

\* C15: the rows are in strictly ascending order of property under the
\* collation order of localeCompare.
C15_SortedByCollation ==
  Compared =>
    \A i, j \in Rows :
      i < j => CollationRank(comparisonData[i].property)
                 < CollationRank(comparisonData[j].property)

\* A comparison whose keys collation and code units order differently, and
\* which the records do not list in ascending order.
C15_Witness ==
  /\ Compared
  /\ Len(comparisonData) >= 5
  /\ comparisonData[Len(comparisonData)].property = "Zone"
  /\ allKeysOf(RecordA, RecordB)[1] # comparisonData[1].property

\* The status of a row when the two records change places.
Flipped(status) ==
  CASE status = "added" -> "removed"
    [] status = "removed" -> "added"
    [] OTHER -> status

\* C16: comparing the two records the other way round gives the same
\* properties in the same order, with value1 and value2 exchanged, 'added'
\* and 'removed' exchanged, and 'changed' and 'same' kept.
C16_SwapSymmetry ==
  Compared =>
    LET swapped == compareMetadata(<<RecordB, RecordA>>)
    IN /\ Len(swapped) = Len(comparisonData)
       /\ \A i \in Rows :
            /\ swapped[i].property = comparisonData[i].property
            /\ swapped[i].value1 = comparisonData[i].value2
            /\ swapped[i].value2 = comparisonData[i].value1
            /\ swapped[i].status = Flipped(comparisonData[i].status)

\* Two records whose keys are met in a different order when they change
\* places, with rows of all four kinds.
C16_Witness ==
  /\ Compared
  /\ allKeysOf(RecordA, RecordB) # allKeysOf(RecordB, RecordA)
  /\ \A status \in {"added", "removed", "changed", "same"} :
       \E i \in Rows : comparisonData[i].status = status

\* The two selected records have the same params mapping and the same id.
SameParamsAndId ==
  /\ Compared
  /\ Get(RecordA, "params").t = "object"
  /\ Get(RecordA, "params") = Get(RecordB, "params")
  /\ Get(RecordA, "id") = Get(RecordB, "id")

AllRowsSame == \A i \in Rows : comparisonData[i].status = "same"

\* C17 as stated: two records with identical params and identical id give
\* only 'same' rows, whatever their other top-level fields are.
C17_SameParamsAllSame == SameParamsAndId => AllRowsSame

\* C17, amended: two records with identical params, identical id and
\* identical createdAt and updatedAt (each equal, or missing in both) give
\* only 'same' rows, whatever their other top-level fields are.
C17_SameComparedFieldsAllSame ==
  (/\ SameParamsAndId
   /\ Get(RecordA, "createdAt") = Get(RecordB, "createdAt")
   /\ Get(RecordA, "updatedAt") = Get(RecordB, "updatedAt"))
    => AllRowsSame

\* Two different records that agree in params, id, createdAt and updatedAt.
C17_Witness ==
  /\ SameParamsAndId
  /\ Get(RecordA, "createdAt") = Get(RecordB, "createdAt")
  /\ Get(RecordA, "updatedAt") = Get(RecordB, "updatedAt")
  /\ RecordA # RecordB
  /\ Len(comparisonData) >= 3
  /\ AllRowsSame

\* The records of the worked example: a = {id:"1", params:{type:"pipe"}} and
\* b = {id:"2", params:{type:"pipe", label:"X"}}.
ExampleSelected == selectedConnections = <<PlainRecord("1"), LabelledRecord("2")>>

\* C18: for the selection [a, b] compareMetadata returns exactly the rows
\* (id, "1", "2", changed), (label, "N/A", "X", added) and
\* (type, "pipe", "pipe", same), in this order.
C18_WorkedExample ==
  ExampleSelected =>
    comparisonData =
      <<[property |-> "id", value1 |-> "1", value2 |-> "2", status |-> "changed"],
        [property |-> "label", value1 |-> "N/A", value2 |-> "X", status |-> "added"],
        [property |-> "type", value1 |-> "pipe", value2 |-> "pipe", status |-> "same"]>>

\* b was added to a.
C18_Witness ==
  /\ ExampleSelected
  /\ Added
  /\ previousSelection = <<PlainRecord("1")>>
  /\ Len(comparisonData) = 3

\* The params of a record is missing or is not a mapping.
Malformed(conn) == Get(conn, "params").t # "object"

\* The keys of the params of a record, when it is a mapping.
MappingKeys(conn) ==
  IF Malformed(conn)
  THEN {}
  ELSE {Get(conn, "params").o[i].k : i \in 1..Len(Get(conn, "params").o)}

\* C20: a selected record whose params is missing or is not a mapping (null,
\* a string, a number) contributes no params keys to the rows, and each of
\* its values that would come from params is absent.
C20_MalformedContributesNothing ==
  (Compared /\ (Malformed(RecordA) \/ Malformed(RecordB))) =>
    /\ {comparisonData[i].property : i \in Rows}
         = MappingKeys(RecordA) \cup MappingKeys(RecordB)
             \cup TopLevelKeys(RecordA) \cup TopLevelKeys(RecordB)
    /\ \A i \in Rows :
         comparisonData[i].property \notin TopLevelOnly =>
           /\ Malformed(RecordA) => comparisonData[i].value1 = "N/A"
           /\ Malformed(RecordB) => comparisonData[i].value2 = "N/A"

(***************************************************************************)
(* Properties of the derived state.                                        *)
(***************************************************************************)
\* C21: between user actions comparisonData is the comparison of the current
\* selection, never that of an earlier one.
C21_RowsFollowSelection == comparisonData = compareMetadata(selectedConnections)

\* A third record replaced the oldest one and the rows changed with it.
C21_Witness ==
  /\ Added
  /\ Len(previousSelection) = 2
  /\ compareMetadata(previousSelection) # <<>>
  /\ comparisonData # <<>>
  /\ comparisonData # compareMetadata(previousSelection)

\* C27: whenever two connections are selected through the view's controls,
\* the rows are not empty and the row of 'id' is 'changed', so the notice
\* that there is nothing to compare is never shown.
C27_IdRowChanged ==
  Compared =>
    /\ Len(comparisonData) > 0
    /\ \E i \in Rows :
         comparisonData[i].property = "id" /\ comparisonData[i].status = "changed"
    /\ ~NoMetadataNoticeShown

\* Two rows that have nothing but an id are selected.
C27_Witness ==
  /\ Compared
  /\ ComparisonTableShown
  /\ RecordA \in connections /\ RecordB \in connections
  /\ Len(comparisonData) = 1
  /\ comparisonData[1].status = "changed"

(***************************************************************************)
(* The application (src/src/App.svelte) and its service                    *)
(* (src/src/actions/IntegrationService.js).                                *)
(***************************************************************************)
\* let loaded = $derived(!!token)
loadedOf(tok) == Truthy(tok)
loaded == loadedOf(token)

\* Lines 42-56: the list is shown when loaded, the waiting alert otherwise.
ListShown == loaded
WaitingShown == ~loaded

\* The strings of a sequence, joined.
RECURSIVE Join(_)
Join(strings) ==
  IF strings = <<>> THEN "" ELSE strings[1] \o Join(Tail(strings))

\* The characters in front of the first colon.
RECURSIVE UpToColon(_)
UpToColon(chars) ==
  IF chars = <<>> \/ chars[1] = ":" THEN <<>> ELSE <<chars[1]>> \o UpToColon(Tail(chars))

\* subProjectId.split(':')[0]
FirstPart(subProjectId) == Str(Join(UpToColon(Chars(subProjectId.s))))

\* subProjectId.split raises unless subProjectId is a string.
SetProjectThrows(subProjectId) == subProjectId.t # "string"

setJWT(svc, jwt) == [svc EXCEPT !.jwt = jwt]

\* setProject when split does not raise.
setProject(svc, projectId, subProjectId) ==
  [svc EXCEPT !.projectId = projectId, !.subProjectId = FirstPart(subProjectId)]

\* setProject up to the statement that raises.
setProjectInterrupted(svc, projectId) == [svc EXCEPT !.projectId = projectId]

\* What getConnections puts into its request.
RequestOf(svc) == [projectId |-> svc.projectId, subProjectId |-> svc.subProjectId,
                   jwt |-> svc.jwt]

\* The data of the 'loaded' event.
LoadedData(tok, project, subProject) ==
  Obj(<<Entry("event", Str("loaded")), Entry("token", Str(tok)),
        Entry("project", Str(project)), Entry("subProject", Str(subProject))>>)

\* The data of the messages the host sends.
Messages ==
  {LoadedData("t", "p", "s:e"), LoadedData("u", "q", "r"), LoadedData("", "p", "r"),
   Obj(<<Entry("event", Str("select"))>>)}

\* window.loadedEvent at start-up: absent, or the data of a 'loaded' event.
LoadedEvents == {Undefined, LoadedData("t", "p", "s:e")}

\* The collections the server can answer with.
Responses ==
  {{}, {PlainRecord("1"), LabelledRecord("2"), BareRecord("3")}}

InitApp ==
  /\ connections = {}
  /\ Mounted
  /\ AppStarted
  /\ loadedEvent \in LoadedEvents

\* The list is created when loaded becomes true and destroyed when it
\* becomes false; while it stays, its state stays.
ListAfter(tok) ==
  IF loadedOf(tok) = loaded
  THEN UNCHANGED listVars
  ELSE /\ selectedConnections' = <<>>
       /\ showComparison' = showComparisonOf(<<>>)
       /\ comparisonData' = compareMetadata(<<>>)
       /\ lastCall' = Call("mount", Undefined)
       /\ previousSelection' = <<>>

\* A triggerLoad that shows the list before the collection has arrived.
TriggerLoad_tokenFirst(jwtToken, projectId, subProjectId) ==
  /\ received' = (received \/ Truthy(jwtToken))
  /\ token' = jwtToken
  /\ IF SetProjectThrows(subProjectId)
     THEN /\ service' = setProjectInterrupted(setJWT(service, jwtToken), projectId)
          /\ setProjectThrew' = TRUE
          /\ UNCHANGED <<pending, started>>
     ELSE /\ service' = setProject(setJWT(service, jwtToken), projectId, subProjectId)
          /\ pending' = pending \cup {[call |-> started + 1, jwtToken |-> jwtToken,
                                       request |-> RequestOf(service')]}
          /\ started' = started + 1
          /\ UNCHANGED setProjectThrew

\* triggerLoad up to its await: lines 22-25.
TriggerLoad(jwtToken, projectId, subProjectId) ==
  /\ received' = (received \/ Truthy(jwtToken))
  /\ token' = token
  /\ IF SetProjectThrows(subProjectId)
     THEN /\ service' = setProjectInterrupted(setJWT(service, jwtToken), projectId)
          /\ setProjectThrew' = TRUE
          /\ UNCHANGED <<pending, started>>
     ELSE /\ service' = setProject(setJWT(service, jwtToken), projectId, subProjectId)
          /\ pending' = pending \cup {[call |-> started + 1, jwtToken |-> jwtToken,
                                       request |-> RequestOf(service')]}
          /\ started' = started + 1
          /\ UNCHANGED setProjectThrew

\* The $effect of lines 15-20.  It runs after the component is created and
\* after loaded has changed, before the next message, answer or click is
\* handled.
RunEffect ==
  /\ effectPending
  /\ effectPending' = FALSE
  /\ IF ~loaded /\ Truthy(loadedEvent)
     THEN TriggerLoad(Get(loadedEvent, "token"), Undefined, Undefined)
     ELSE UNCHANGED <<token, service, pending, started, setProjectThrew, received>>
  /\ UNCHANGED <<connections, listVars, loadedEvent, fetchFailed, results>>

\* onWindowMessage, lines 29-36.
WindowMessage(data) ==
  /\ ~effectPending
  /\ started < MaxLoads
  /\ IF ~loaded /\ OptGet(data, "event") = Str("loaded")
     THEN TriggerLoad(Get(data, "token"), Get(data, "project"), Get(data, "subProject"))
     ELSE UNCHANGED <<token, service, pending, started, setProjectThrew, received>>
  /\ UNCHANGED <<connections, listVars, loadedEvent, effectPending, fetchFailed, results>>

\* The request of a triggerLoad call is answered: lines 25-26.
FetchResolve(load, data) ==
  /\ ~effectPending
  /\ load \in pending
  /\ pending' = pending \ {load}
  /\ connections' = data
  /\ token' = load.jwtToken
  /\ results' = results \cup {[call |-> load.call, data |-> data, jwtToken |-> load.jwtToken]}
  /\ effectPending' = (loadedOf(load.jwtToken) # loaded)
  /\ ListAfter(load.jwtToken)
  /\ UNCHANGED <<loadedEvent, service, started, fetchFailed, setProjectThrew, received>>

\* The request of a triggerLoad call is rejected: the call ends at line 25.
FetchReject(load) ==
  /\ ~effectPending
  /\ load \in pending
  /\ pending' = pending \ {load}
  /\ fetchFailed' = TRUE
  /\ UNCHANGED <<connections, listVars, token, loadedEvent, effectPending, service,
                 started, setProjectThrew, received, results>>

\* The user's clicks, on the list the application shows.
UserAdd(connection) == ListShown /\ ~effectPending /\ ClickAdd(connection)
UserRemove(connection) == ListShown /\ ~effectPending /\ ClickRemove(connection)
UserClear == ListShown /\ ~effectPending /\ ClickClear

\* The request of some call is settled.
Settle ==
  \/ \E load \in pending, data \in Responses : FetchResolve(load, data)
  \/ \E load \in pending : FetchReject(load)

NextApp ==
  \/ RunEffect
  \/ \E data \in Messages : WindowMessage(data)
  \/ \E load \in pending, data \in Responses : FetchResolve(load, data)
  \/ \E load \in pending : FetchReject(load)
  \/ \E connection \in connections : UserAdd(connection)
  \/ \E connection \in connections : UserRemove(connection)
  \/ UserClear

SpecApp == InitApp /\ [][NextApp]_vars

\* The effect runs, and every request is settled.
SpecAppFair == SpecApp /\ WF_vars(RunEffect) /\ WF_vars(Settle)

(***************************************************************************)
(* Properties of loading.                                                  *)
(***************************************************************************)
\* C22: the fetch of the connections is started at most once, and never
\* while an earlier fetch is still in flight, whatever 'loaded' messages and
\* completions are interleaved.
C22_FetchedOnce == started <= 1 /\ Cardinality(pending) <= 1

\* C23: the waiting alert is shown until integration data is received, and
\* once a non-empty token has been received by either path and the request
\* does not fail, the application leaves the waiting state.
C23_ReceivedLeadsToList ==
  /\ [](~received => WaitingShown)
  /\ <>received => <>(ListShown \/ fetchFailed)

\* C24: when the request for the connections fails, the application does not
\* stay in the waiting state for ever.
C24_FailureLeavesWaiting == fetchFailed ~> ~WaitingShown

\* C25: whenever the list is shown, the connections are the answer of a
\* completed request, and the token is the one of the call that made it.
C25_LoadedAfterStored ==
  loaded => \E result \in results : result.data = connections /\ result.jwtToken = token

\* Two calls have completed and the list shows the answer of one of them.
C25_Witness ==
  /\ loaded
  /\ Cardinality(results) = 2
  /\ connections # {}
  /\ pending = {}

\* C26: every selected record is one of the connections the list is given,
\* under every interleaving of messages, completions and clicks.
C26_SelectionWithinConnections ==
  \A i \in 1..Len(selectedConnections) : selectedConnections[i] \in connections

====
